---- MODULE Spec2Model ----
(***************************************************************************)
(* Grid Control: the fan-curve engine of config.py and the UI thread /     *)
(* polling thread interplay of gridcontrol.py around the shared serial     *)
(* port and its lock.                                                      *)
(*                                                                         *)
(* Python floats are modelled as exact rationals [n, d] in lowest terms    *)
(* with d > 0; temperatures and speeds are drawn from small integer sets.  *)
(* Python's None is the empty sequence <<>>, a present value v is <<v>>.   *)
(***************************************************************************)
EXTENDS Integers, Sequences, FiniteSets, TLC

(***************************************************************************)
(* Bounds of the model.                                                    *)
(***************************************************************************)
\* longest curve drawn as an input of the pure-function specification
MaxPoints == 2
\* longest curve drawn for a role of a FanConfiguration
MaxConfigPoints == 1
\* most instances of the classes of config.py constructed
MaxInstances == 3
\* most items added to one container
MaxItems == 1
\* temperatures a curve point or a query may carry
CurveTemps == {0, 20, 50, 90, 100}
\* speeds a curve point may carry (the spec's range is 0..100; the code
\* accepts any number, so one value lies outside the range)
CurveSpeeds == {0, 10, 50, 100, 150}

(***************************************************************************)
(* Exact rational arithmetic standing for Python's float arithmetic.       *)
(***************************************************************************)
Abs(x) == IF x < 0 THEN -x ELSE x

RECURSIVE Gcd(_, _)
Gcd(a, b) == IF b = 0 THEN a ELSE Gcd(b, a % b)

\* the rational n/d (d # 0) in lowest terms with a positive denominator
Frac(n, d) ==
    LET g == Gcd(Abs(n), Abs(d))
        s == IF d < 0 THEN -1 ELSE 1
    IN  [n |-> (s * n) \div g, d |-> (s * d) \div g]

FracOfInt(k) == [n |-> k, d |-> 1]

FLe(a, b) == a.n * b.d <= b.n * a.d
FLt(a, b) == a.n * b.d < b.n * a.d

\* Python's max(a, b): b only when b > a
PyMax(a, b) == IF FLt(a, b) THEN b ELSE a
\* Python's min(a, b): b only when b < a
PyMin(a, b) == IF FLt(b, a) THEN b ELSE a

\* Python's round(x) for x >= 0: to the nearest integer, ties to even
PyRound(x) ==
    LET q == x.n \div x.d
        r == x.n - q * x.d
    IN  IF 2 * r < x.d THEN q
        ELSE IF 2 * r > x.d THEN q + 1
        ELSE IF q % 2 = 0 THEN q ELSE q + 1

(***************************************************************************)
(* config.py: FanCurvePoint, FanCurve                                      *)
(***************************************************************************)
FanCurvePoint(temp, speed) == [temp |-> temp, speed |-> speed]

DEFAULT_LOWER_TEMP == 20
DEFAULT_LOWER_SPEED == 10
DEFAULT_UPPER_TEMP == 90
DEFAULT_UPPER_SPEED == 100

\* an interpolate that steps: the speed of self up to the next point
interpolate_step(self, other, temp) == FracOfInt(self.speed)

\* an interpolate without the guard for equal temperatures: the quotient by
\* zero is kept as a value with denominator 0
interpolate_unguarded(self, other, temp) ==
    IF other.temp = self.temp
    THEN [n |-> self.speed, d |-> 0]
    ELSE Frac(self.speed * (other.temp - self.temp)
                + (temp - self.temp) * (other.speed - self.speed),
              other.temp - self.temp)

\* an interpolate that returns the other point's speed at equal temperatures
interpolate_equal_takes_other(self, other, temp) ==
    IF other.temp = self.temp
    THEN FracOfInt(other.speed)
    ELSE Frac(self.speed * (other.temp - self.temp)
                + (temp - self.temp) * (other.speed - self.speed),
              other.temp - self.temp)

\* FanCurvePoint.interpolate(self, other, temp)
interpolate(self, other, temp) ==
    IF other.temp = self.temp
    THEN FracOfInt(self.speed)
    ELSE Frac(self.speed * (other.temp - self.temp)
                + (temp - self.temp) * (other.speed - self.speed),
              other.temp - self.temp)

\* the loop of find_lower_point from index i on, curr being the point kept
RECURSIVE find_lower_from(_, _, _, _)
find_lower_from(points, temp, i, curr) ==
    IF i > Len(points) THEN curr
    ELSE IF points[i].temp > temp THEN curr
    ELSE find_lower_from(points, temp, i + 1, <<points[i]>>)

\* a find_lower_point that falls back on the curve's own first point
find_lower_point_or_first(points, temp) ==
    LET lp == find_lower_from(points, temp, 1, <<>>)
    IN  IF lp = <<>> /\ points # <<>> THEN <<points[1]>> ELSE lp

\* FanCurve.find_lower_point: the last point before the first one above temp
find_lower_point(points, temp) == find_lower_from(points, temp, 1, <<>>)

\* the loop of find_upper_point from index i on
RECURSIVE find_upper_from(_, _, _)
find_upper_from(points, temp, i) ==
    IF i > Len(points) THEN <<>>
    ELSE IF points[i].temp >= temp THEN <<points[i]>>
    ELSE find_upper_from(points, temp, i + 1)

\* a find_upper_point that falls back on the curve's own last point
find_upper_point_or_last(points, temp) ==
    LET up == find_upper_from(points, temp, 1)
    IN  IF up = <<>> /\ points # <<>> THEN <<points[Len(points)]>> ELSE up

\* FanCurve.find_upper_point: the first point at or above temp
find_upper_point(points, temp) == find_upper_from(points, temp, 1)

\* a lower_point whose default is the origin (0, 0)
lower_point_from_zero(points, temp) ==
    LET lp == find_lower_point(points, temp)
    IN  IF lp = <<>> THEN FanCurvePoint(0, 0) ELSE lp[1]

\* get_fan_speed: lower_point, the default lower boundary when none is found
lower_point(points, temp) ==
    LET lp == find_lower_point(points, temp)
    IN  IF lp = <<>>
        THEN FanCurvePoint(DEFAULT_LOWER_TEMP, DEFAULT_LOWER_SPEED)
        ELSE lp[1]

\* get_fan_speed: upper_point, the default upper boundary when none is found
upper_point(points, temp) ==
    LET up == find_upper_point(points, temp)
    IN  IF up = <<>>
        THEN FanCurvePoint(DEFAULT_UPPER_TEMP, DEFAULT_UPPER_SPEED)
        ELSE up[1]

\* the interpolated value of get_fan_speed before it is clamped
raw_fan_speed(points, temp) ==
    interpolate(lower_point(points, temp), upper_point(points, temp), temp)

\* a get_fan_speed that forgets the clamp
get_fan_speed_unclamped(points, temp) == raw_fan_speed(points, temp)

\* FanCurve.get_fan_speed
get_fan_speed(points, temp) ==
    PyMin(FracOfInt(100), PyMax(FracOfInt(0), raw_fan_speed(points, temp)))

(***************************************************************************)
(* config.py: FanConfiguration, FanConfigurationFile                       *)
(* A FanConfiguration is the mapping fan_curves: role -> points; a         *)
(* FanConfigurationFile is the mapping fan_configurations: index -> it.    *)
(***************************************************************************)
\* FanConfiguration.get_CPU_fan_speed
get_CPU_fan_speed(fan_curves, t) ==
    IF "cpu" \notin DOMAIN fan_curves THEN FracOfInt(0)
    ELSE get_fan_speed(fan_curves["cpu"], t)

\* a get_GPU_fan_speed that evaluates the default curve when there is no gpu curve
get_GPU_fan_speed_default_curve(fan_curves, t) ==
    IF "gpu" \notin DOMAIN fan_curves THEN get_fan_speed(<<>>, t)
    ELSE get_fan_speed(fan_curves["gpu"], t)

\* FanConfiguration.get_GPU_fan_speed
get_GPU_fan_speed(fan_curves, t) ==
    IF "gpu" \notin DOMAIN fan_curves THEN FracOfInt(0)
    ELSE get_fan_speed(fan_curves["gpu"], t)

\* a FanConfiguration.get_fan_speed that lets the cpu curve decide whenever a
\* cpu temperature is given
config_get_fan_speed_cpu_first(fan_curves, cpu_temp, gpu_temp) ==
    IF cpu_temp # <<>>
    THEN get_CPU_fan_speed(fan_curves, cpu_temp[1])
    ELSE IF gpu_temp # <<>>
         THEN get_GPU_fan_speed(fan_curves, gpu_temp[1])
         ELSE FracOfInt(0)

\* FanConfiguration.get_fan_speed(cpu_temp, gpu_temp); a temperature is
\* <<>> for None and <<t>> otherwise
config_get_fan_speed(fan_curves, cpu_temp, gpu_temp) ==
    LET cpu_speed == IF cpu_temp # <<>>
                     THEN get_CPU_fan_speed(fan_curves, cpu_temp[1])
                     ELSE FracOfInt(0)
        gpu_speed == IF gpu_temp # <<>>
                     THEN get_GPU_fan_speed(fan_curves, gpu_temp[1])
                     ELSE FracOfInt(0)
    IN  PyMax(cpu_speed, gpu_speed)

\* FanConfigurationFile.get_fan(index): <<>> for None
get_fan(fan_configurations, index) ==
    IF index \notin DOMAIN fan_configurations THEN <<>>
    ELSE <<fan_configurations[index]>>

(***************************************************************************)
(* gridcontrol.py: constants of the window and the inputs it is run on.    *)
(***************************************************************************)
\* the six fan channels: range(1, 7) and the six widgets of every kind
NumFans == 6
Fans == 1..NumFans

SELECT_PORT == "<Select port>"
\* the serial ports grid.get_serial_ports() found
SerialPorts == {"COM1"}

\* the configuration document the window was started with: fan 1 follows
\* the CPU, fan 2 the hotter of CPU and GPU, fans 3..6 have no entry
CpuCurve == <<FanCurvePoint(20, 10), FanCurvePoint(50, 50), FanCurvePoint(90, 100)>>
GpuCurve == <<FanCurvePoint(40, 20), FanCurvePoint(80, 60)>>
ConfigFile ==
    (1 :> [cpu |-> CpuCurve]) @@ (2 :> [cpu |-> CpuCurve, gpu |-> GpuCurve])

\* the (cpu, gpu) temperatures OpenHardwareMonitor may report in a tick
HwmonReadings == {<<30, 80>>, <<80, 30>>}
\* the value every fan slider was saved with
SavedSlider == 50
\* the values the user drags a slider to
UserSliderValues == {100}

\* user events (port, polling, restart, slider, mode, close) in one run
MaxUserEvents == 2
\* signals of the polling thread waiting in the UI thread's event queue
MaxQueue == 1
\* channels whose responses fail to decode in one tick
MaxDecodeErrors == 1

(***************************************************************************)
(* State.                                                                  *)
(***************************************************************************)
VARIABLES
    \* --- the pure-function specification (SpecCurve) ---
    curve,          \* the points of the FanCurve under evaluation
    temp,           \* the temperature it is evaluated at
    speed,          \* <<>> before the call, <<result>> after it
    calls,          \* the calls made so far on this input
    fan_curves,     \* the fan_curves of the FanConfiguration under evaluation
    cpu_temp,       \* the cpu_temp it is evaluated at: <<>> for None, <<t>> otherwise
    gpu_temp,       \* the gpu_temp it is evaluated at
    fan_speed,      \* <<>> before the call, <<result>> after it
    \* --- the objects of config.py (SpecObjects) ---
    heap,           \* the containers (lists, dicts) alive: heap[c] is what container c holds
    instances,      \* the instances constructed: their class and the container they refer to
    \* --- widgets of the main window (self.ui) ---
    comPort,        \* comboBoxComPorts.currentText()
    pollSel,        \* comboBoxPolling.currentText()
    mode,           \* "manual" / "automatic": the radio button checked
    slider,         \* horizontalSliderFan<i>.value()
    lcdFan,         \* lcdNumberFan<i>.value()
    slidersEnabled, \* horizontalSliderFan<i>.isEnabled() (all six alike)
    radioEnabled,   \* radioButtonManual/Automatic.isEnabled()
    lcdCPU,         \* lcdNumberCurrentCPU.value()
    lcdGPU,         \* lcdNumberCurrentGPU.value()
    pollingStatus,  \* labelPollingStatus: "Stopped" / "Running"
    manual_value,   \* self.manual_value_fan<i>
    \* --- the UI thread ---
    uiStack,        \* the calls in progress, innermost first; <<>>: idle in the event loop
    appClosed,      \* closeEvent accepted
    afterException, \* a fatal-error event was handled and no user event since
    userEvents,     \* user events so far
    \* --- the polling thread (self.thread) ---
    taskPc,         \* "stopped", "boundary", "rpm", "volt", "publish"
    taskFan,        \* the channel being read
    keepRunning,    \* the stop flag, sampled at the tick boundary
    taskTemps,      \* the (cpu, gpu) temperatures read in this tick
    fanStatus,      \* per channel in this tick: "none", "ok", "unknown"
    decodeFailed,   \* the channels a read of which failed to decode in this tick
    pollInterval,   \* the thread's polling interval
    \* --- shared by both threads ---
    lock,           \* self.lock: "free", "ui", "task"
    inTransaction,  \* the threads inside a port operation
    serOpen,        \* self.ser.isOpen()
    serPort,        \* self.ser.port
    gridInit,       \* the device answered the handshake since the port was opened
    fanCmd,         \* per channel: the percentage last written to the device
    queue,          \* signals of the polling thread queued for the UI thread
    commFailures,   \* reads that failed at the port since thread.start()
    excReported,    \* fatal-error events emitted since thread.start()
    \* --- settings: the Sensor Config tab, the configuration document ---
    selSensors,     \* ids in treeWidgetSelectedCPUSensors / ...GPUSensors
    calcSel,        \* radioButtonCPUMax / radioButtonGPUMax: "Max" or "Avg"
    config,         \* self.config.fan_configurations
    lcdAvail,       \* whether lcdNumberCurrentCPU/GPU shows a reading (not 0 for none)
    \* --- settings of the polling thread ---
    sensorIds,      \* the thread's cpu_sensor_ids / gpu_sensor_ids
    tempCalc,       \* the thread's cpu_calc / gpu_calc
    cycleCfg,       \* the settings the cycle in progress measures with; <<>>: no cycle
    \* --- the "Simulate temperatures" group box ---
    simChecked,     \* checkBoxSimulateTemp.isChecked()
    simTemp,        \* horizontalSliderCPUTemp / GPUTemp .value()
    threadConn,     \* connections of cpu_temp_signal / gpu_temp_signal to the two LCDs
    simConn         \* connections of the two sliders' valueChanged to the two LCDs

curveVars == <<curve, temp, speed, calls, fan_curves, cpu_temp, gpu_temp, fan_speed,
               heap, instances>>
widgetVars == <<comPort, pollSel, mode, slider, lcdFan, slidersEnabled, radioEnabled,
                lcdCPU, lcdGPU, pollingStatus, manual_value>>
uiVars == <<uiStack, appClosed, afterException, userEvents>>
taskVars == <<taskPc, taskFan, keepRunning, taskTemps, fanStatus, decodeFailed,
              pollInterval>>
portVars == <<lock, inTransaction, serOpen, serPort, gridInit, fanCmd>>
sigVars == <<queue, commFailures, excReported>>
settingVars == <<selSensors, calcSel, config>>
threadCfgVars == <<sensorIds, tempCalc, cycleCfg>>
simVars == <<simChecked, simTemp, threadConn, simConn>>
sysVars == <<widgetVars, uiVars, taskVars, portVars, sigVars, settingVars, threadCfgVars,
             lcdAvail, simVars>>
vars == <<curveVars, sysVars>>

PollingIntervals == {500, 1000}

Frame(op, i) == [op |-> op, i |-> i]
\* a queued call is bound to its slot when the signal is emitted: shown tells
\* whether the temperature signals were connected to the LCDs then
TickEvent(temps) ==
    [type |-> "tick", cpu |-> temps[1], gpu |-> temps[2], shown |-> threadConn > 0]
ExceptionEvent == [type |-> "exception", cpu |-> <<>>, gpu |-> <<>>, shown |-> FALSE]

\* no reading: what a subsystem without selected sensors yields
NoTemps == << <<>>, <<>> >>
\* the sensors of the Sensor Config tab: one per subsystem
AllSensors == [cpu |-> {"cpu0"}, gpu |-> {"gpu0"}]
\* the readings of OpenHardwareMonitor r, taken with the sensor-ID sets ids:
\* a subsystem with no sensor selected has no temperature
Measure(r, ids) ==
    << IF ids.cpu = {} THEN <<>> ELSE <<r[1]>>,
       IF ids.gpu = {} THEN <<>> ELSE <<r[2]>> >>
\* the number an LCD shows for a temperature signal: 0 when there is none
Shown(t) == IF t = <<>> THEN 0 ELSE t[1]
\* the settings of the thread, as a cycle takes them at its tick boundary
ThreadCfg == [interval |-> pollInterval, calc |-> tempCalc, sensors |-> sensorIds]

\* GridControl.__init__ up to the call of init_communication at its end
InitSys ==
    /\ comPort \in {SELECT_PORT, "COM1"}
    /\ pollSel = 500
    /\ mode \in {"manual", "automatic"}
    /\ slider = [i \in Fans |-> SavedSlider]
    /\ lcdFan = slider
    /\ slidersEnabled = (mode = "manual")
    /\ radioEnabled = TRUE
    /\ lcdCPU = 0
    /\ lcdGPU = 0
    /\ pollingStatus = "Stopped"
    /\ manual_value = slider
    /\ uiStack = <<Frame("ic_begin", 0)>>
    /\ appClosed = FALSE
    /\ afterException = FALSE
    /\ userEvents = 0
    /\ taskPc = "stopped"
    /\ taskFan = 1
    /\ keepRunning = TRUE
    /\ taskTemps = NoTemps
    /\ fanStatus = [i \in Fans |-> "none"]
    /\ decodeFailed = {}
    /\ pollInterval = pollSel
    /\ lock = "free"
    /\ inTransaction = {}
    /\ serOpen = FALSE
    /\ serPort = SELECT_PORT
    /\ gridInit = FALSE
    /\ fanCmd = [i \in Fans |-> 0]
    /\ queue = <<>>
    /\ commFailures = 0
    /\ excReported = 0
    /\ lcdAvail = [cpu |-> FALSE, gpu |-> FALSE]
    /\ sensorIds = selSensors
    /\ tempCalc = calcSel
    /\ cycleCfg = <<>>
    /\ simChecked = FALSE
    /\ simTemp = [cpu |-> 0, gpu |-> 0]
    /\ threadConn = 1
    /\ simConn = 0

(***************************************************************************)
(* The polling thread (polling.PollingThread): one cycle per tick.         *)
(***************************************************************************)
\* PollingThread.isRunning()
isRunning == taskPc # "stopped"

\* a tick boundary that does not look at the stop flag
TaskBoundaryIgnoresStop ==
    /\ taskPc = "boundary"
    /\ Len(queue) < MaxQueue
    /\ \E r \in HwmonReadings : taskTemps' = Measure(r, sensorIds)
    /\ cycleCfg' = ThreadCfg
    /\ taskPc' = "rpm"
    /\ UNCHANGED <<taskFan, fanStatus, decodeFailed>>
    /\ UNCHANGED <<keepRunning, pollInterval>>
    /\ UNCHANGED <<curveVars, widgetVars, uiVars, portVars, sigVars>>
    /\ UNCHANGED <<settingVars, sensorIds, tempCalc, lcdAvail>>
    /\ UNCHANGED simVars

\* the tick boundary: the stop flag is sampled; when it is clear the next
\* cycle begins by reading the temperatures from OpenHardwareMonitor
TaskBoundary ==
    /\ taskPc = "boundary"
    /\ IF ~keepRunning
       THEN /\ taskPc' = "stopped"
            /\ UNCHANGED <<taskFan, taskTemps, fanStatus, decodeFailed, cycleCfg>>
       ELSE /\ Len(queue) < MaxQueue
            /\ \E r \in HwmonReadings : taskTemps' = Measure(r, sensorIds)
            /\ cycleCfg' = ThreadCfg
            /\ taskPc' = "rpm"
            /\ UNCHANGED <<taskFan, fanStatus, decodeFailed>>
    /\ UNCHANGED <<keepRunning, pollInterval>>
    /\ UNCHANGED <<curveVars, widgetVars, uiVars, portVars, sigVars>>
    /\ UNCHANGED <<settingVars, sensorIds, tempCalc, lcdAvail>>
    /\ UNCHANGED simVars

\* the thread takes the lock for one read of the channel
TaskAcquire ==
    /\ taskPc \in {"rpm", "volt"}
    /\ "task" \notin inTransaction
    /\ lock = "free"
    /\ lock' = "task"
    /\ inTransaction' = inTransaction \cup {"task"}
    /\ UNCHANGED <<serOpen, serPort, gridInit, fanCmd>>
    /\ UNCHANGED <<curveVars, widgetVars, uiVars, taskVars, sigVars>>
    /\ UNCHANGED <<settingVars, threadCfgVars, lcdAvail>>
    /\ UNCHANGED simVars

\* where the cycle goes after a read that did not fail at the port
TaskAdvance ==
    IF taskPc = "rpm" THEN /\ taskPc' = "volt"
                           /\ taskFan' = taskFan
    ELSE IF taskFan < NumFans THEN /\ taskPc' = "rpm"
                                   /\ taskFan' = taskFan + 1
    ELSE /\ taskPc' = "publish"
         /\ taskFan' = taskFan

\* the status a channel gets from a read that was decoded
read_ok(status, fan) ==
    IF status[fan] = "unknown" THEN status ELSE [status EXCEPT ![fan] = "ok"]

\* a decode failure that spoils the whole snapshot
read_undecodable_all(status, fan) == [i \in Fans |-> "unknown"]

\* the status the channels get from a read that could not be decoded
read_undecodable(status, fan) == [status EXCEPT ![fan] = "unknown"]

\* the read is answered and decoded
TaskReadOk ==
    /\ "task" \in inTransaction
    /\ serOpen
    /\ fanStatus' = read_ok(fanStatus, taskFan)
    /\ TaskAdvance
    /\ lock' = "free"
    /\ inTransaction' = inTransaction \ {"task"}
    /\ UNCHANGED <<keepRunning, taskTemps, decodeFailed, pollInterval>>
    /\ UNCHANGED <<serOpen, serPort, gridInit, fanCmd>>
    /\ UNCHANGED <<curveVars, widgetVars, uiVars, sigVars>>
    /\ UNCHANGED <<settingVars, threadCfgVars, lcdAvail>>
    /\ UNCHANGED simVars

\* the read is answered with bytes that do not decode: the channel is
\* unknown for this tick and the cycle goes on
TaskReadUndecodable ==
    /\ "task" \in inTransaction
    /\ serOpen
    /\ Cardinality(decodeFailed \cup {taskFan}) <= MaxDecodeErrors
    /\ fanStatus' = read_undecodable(fanStatus, taskFan)
    /\ decodeFailed' = decodeFailed \cup {taskFan}
    /\ TaskAdvance
    /\ lock' = "free"
    /\ inTransaction' = inTransaction \ {"task"}
    /\ UNCHANGED <<keepRunning, taskTemps, pollInterval>>
    /\ UNCHANGED <<serOpen, serPort, gridInit, fanCmd>>
    /\ UNCHANGED sigVars
    /\ UNCHANGED <<curveVars, widgetVars, uiVars>>
    /\ UNCHANGED <<settingVars, threadCfgVars, lcdAvail>>
    /\ UNCHANGED simVars

\* the read fails at the port (always so on a closed port): the failure is
\* reported through exception_signal and the thread ends
TaskReadFails ==
    /\ "task" \in inTransaction
    /\ commFailures' = commFailures + 1
    /\ excReported' = excReported + 1
    /\ queue' = Append(queue, ExceptionEvent)
    /\ taskPc' = "stopped"
    /\ taskFan' = 1
    /\ taskTemps' = NoTemps
    /\ cycleCfg' = <<>>
    /\ fanStatus' = [i \in Fans |-> "none"]
    /\ decodeFailed' = {}
    /\ lock' = "free"
    /\ inTransaction' = inTransaction \ {"task"}
    /\ UNCHANGED <<keepRunning, pollInterval>>
    /\ UNCHANGED <<serOpen, serPort, gridInit, fanCmd>>
    /\ UNCHANGED <<curveVars, widgetVars, uiVars>>
    /\ UNCHANGED <<settingVars, sensorIds, tempCalc, lcdAvail>>
    /\ UNCHANGED simVars

\* the snapshot of the tick is published: the temperature signals and
\* update_signal, queued for the UI thread; then the thread sleeps
TaskPublish ==
    /\ taskPc = "publish"
    /\ queue' = Append(queue, TickEvent(taskTemps))
    /\ taskPc' = "boundary"
    /\ taskFan' = 1
    /\ taskTemps' = NoTemps
    /\ cycleCfg' = <<>>
    /\ fanStatus' = [i \in Fans |-> "none"]
    /\ decodeFailed' = {}
    /\ UNCHANGED <<keepRunning, pollInterval>>
    /\ UNCHANGED <<commFailures, excReported>>
    /\ UNCHANGED <<curveVars, widgetVars, uiVars, portVars>>
    /\ UNCHANGED <<settingVars, sensorIds, tempCalc, lcdAvail>>
    /\ UNCHANGED simVars

TaskNext ==
    \/ TaskBoundary
    \/ TaskAcquire
    \/ TaskReadOk
    \/ TaskReadUndecodable
    \/ TaskReadFails
    \/ TaskPublish

(***************************************************************************)
(* The UI thread: the handlers of gridcontrol.py.  A handler runs from the *)
(* event loop (uiStack = <<>>) to its end; it is cut into steps where it   *)
(* may block: at the lock and in thread.stop().                            *)
(***************************************************************************)
Idle == uiStack = <<>> /\ ~appClosed
Top == Head(uiStack)
InFrame(op) == uiStack # <<>> /\ Top.op = op
Goto(op, i) == <<Frame(op, i)>> \o Tail(uiStack)
Return == Tail(uiStack)

\* grid.setup_serial/open_serial/initialize_grid/set_fan take the lock they
\* are handed for the port operation they make
GridAcquire ==
    /\ uiStack # <<>>
    /\ Top.op \in {"ic_open", "ic_init", "ic_fans", "setfan"}
    /\ "ui" \notin inTransaction
    /\ lock = "free"
    /\ lock' = "ui"
    /\ inTransaction' = inTransaction \cup {"ui"}
    /\ UNCHANGED <<serOpen, serPort, gridInit, fanCmd>>
    /\ UNCHANGED <<curveVars, widgetVars, uiVars, taskVars, sigVars>>
    /\ UNCHANGED <<settingVars, threadCfgVars, lcdAvail>>
    /\ UNCHANGED simVars

\* a grid.set_fan that addresses channel 1 whatever fan it is given
set_fan_channel_one(cmd, fan, percent) ==
    IF serOpen THEN [cmd EXCEPT ![1] = percent] ELSE cmd

\* grid.set_fan(ser, fan, voltage, lock) with the lock taken: the write
\* reaches the device when the port is open
set_fan(cmd, fan, percent) ==
    IF serOpen THEN [cmd EXCEPT ![fan] = percent] ELSE cmd

\* init_communication without its first two lines: a running thread is
\* left running
IcBeginNoStop ==
    /\ InFrame("ic_begin")
    /\ lcdCPU' = 0
    /\ lcdGPU' = 0
    /\ lcdAvail' = [cpu |-> FALSE, gpu |-> FALSE]
    /\ pollingStatus' = "Stopped"
    /\ uiStack' = Goto("ic_close", 0)
    /\ UNCHANGED <<comPort, pollSel, mode, slider, lcdFan, slidersEnabled, radioEnabled,
                   manual_value>>
    /\ UNCHANGED <<appClosed, afterException, userEvents>>
    /\ UNCHANGED <<curveVars, taskVars, portVars, sigVars>>
    /\ UNCHANGED <<settingVars, threadCfgVars>>
    /\ UNCHANGED simVars

\* init_communication, entered: a running thread is told to stop and waited
\* for; otherwise reset_data() follows at once
IcBegin ==
    /\ InFrame("ic_begin")
    /\ IF isRunning
       THEN /\ keepRunning' = FALSE
            /\ uiStack' = Goto("ic_wait", 0)
            /\ UNCHANGED <<lcdCPU, lcdGPU, lcdAvail, pollingStatus>>
       ELSE /\ lcdCPU' = 0
            /\ lcdGPU' = 0
            /\ lcdAvail' = [cpu |-> FALSE, gpu |-> FALSE]
            /\ pollingStatus' = "Stopped"
            /\ uiStack' = Goto("ic_close", 0)
            /\ UNCHANGED keepRunning
    /\ UNCHANGED <<comPort, pollSel, mode, slider, lcdFan, slidersEnabled, radioEnabled,
                   manual_value>>
    /\ UNCHANGED <<appClosed, afterException, userEvents>>
    /\ UNCHANGED <<taskPc, taskFan, taskTemps, fanStatus, decodeFailed, pollInterval>>
    /\ UNCHANGED <<curveVars, portVars, sigVars>>
    /\ UNCHANGED <<settingVars, threadCfgVars>>
    /\ UNCHANGED simVars

\* thread.stop() returns once the thread has ended; reset_data() follows
IcWait ==
    /\ InFrame("ic_wait")
    /\ ~isRunning
    /\ lcdCPU' = 0
    /\ lcdGPU' = 0
    /\ lcdAvail' = [cpu |-> FALSE, gpu |-> FALSE]
    /\ pollingStatus' = "Stopped"
    /\ uiStack' = Goto("ic_close", 0)
    /\ UNCHANGED <<comPort, pollSel, mode, slider, lcdFan, slidersEnabled, radioEnabled,
                   manual_value>>
    /\ UNCHANGED <<appClosed, afterException, userEvents>>
    /\ UNCHANGED <<curveVars, taskVars, portVars, sigVars>>
    /\ UNCHANGED <<settingVars, threadCfgVars>>
    /\ UNCHANGED simVars

\* the port closed without taking the lock
IcCloseNoLock ==
    /\ InFrame("ic_close")
    /\ "ui" \notin inTransaction
    /\ inTransaction' = inTransaction \cup {"ui"}
    /\ UNCHANGED <<lock, serOpen, serPort, gridInit, fanCmd>>
    /\ UNCHANGED <<curveVars, widgetVars, uiVars, taskVars, sigVars>>
    /\ UNCHANGED <<settingVars, threadCfgVars, lcdAvail>>
    /\ UNCHANGED simVars

\* "with self.lock:" around the close
IcCloseAcquire ==
    /\ InFrame("ic_close")
    /\ "ui" \notin inTransaction
    /\ lock = "free"
    /\ lock' = "ui"
    /\ inTransaction' = inTransaction \cup {"ui"}
    /\ UNCHANGED <<serOpen, serPort, gridInit, fanCmd>>
    /\ UNCHANGED <<curveVars, widgetVars, uiVars, taskVars, sigVars>>
    /\ UNCHANGED <<settingVars, threadCfgVars, lcdAvail>>
    /\ UNCHANGED simVars

\* inside the lock the open port is closed; then, with no port selected,
\* the widgets are disabled and init_communication returns
IcClose ==
    /\ InFrame("ic_close")
    /\ "ui" \in inTransaction
    /\ serOpen' = FALSE
    /\ gridInit' = FALSE
    /\ lock' = IF lock = "ui" THEN "free" ELSE lock
    /\ inTransaction' = inTransaction \ {"ui"}
    /\ IF comPort # SELECT_PORT
       THEN /\ uiStack' = Goto("ic_setup", 0)
            /\ UNCHANGED <<slidersEnabled, radioEnabled, simTemp>>
       ELSE /\ slidersEnabled' = FALSE
            /\ radioEnabled' = FALSE
            \* horizontalSliderCPUTemp/GPUTemp.setValue(0); an LCD connected
            \* to them displays the 0 reset_data has just put there
            /\ simTemp' = [cpu |-> 0, gpu |-> 0]
            /\ uiStack' = Return
    /\ UNCHANGED <<comPort, pollSel, mode, slider, lcdFan, lcdCPU, lcdGPU, pollingStatus,
                   manual_value>>
    /\ UNCHANGED <<appClosed, afterException, userEvents>>
    /\ UNCHANGED <<serPort, fanCmd>>
    /\ UNCHANGED <<curveVars, taskVars, sigVars>>
    /\ UNCHANGED <<settingVars, threadCfgVars, lcdAvail>>
    /\ UNCHANGED <<simChecked, threadConn, simConn>>

\* grid.setup_serial(ser, port, lock): the serial object is given the
\* selected port
IcSetup ==
    /\ InFrame("ic_setup")
    /\ lock = "free"
    /\ serPort' = comPort
    /\ uiStack' = Goto("ic_open", 0)
    /\ UNCHANGED <<lock, inTransaction, serOpen, gridInit, fanCmd>>
    /\ UNCHANGED <<appClosed, afterException, userEvents>>
    /\ UNCHANGED <<curveVars, widgetVars, taskVars, sigVars>>
    /\ UNCHANGED <<settingVars, threadCfgVars, lcdAvail>>
    /\ UNCHANGED simVars

\* grid.open_serial(ser, lock): the port opens or does not; then the
\* widgets a selected port allows are enabled
IcOpen ==
    /\ InFrame("ic_open")
    /\ "ui" \in inTransaction
    /\ \E opened \in BOOLEAN : serOpen' = opened
    /\ lock' = "free"
    /\ inTransaction' = inTransaction \ {"ui"}
    /\ slidersEnabled' = IF mode = "manual" THEN TRUE ELSE slidersEnabled
    /\ radioEnabled' = TRUE
    /\ uiStack' = Goto("ic_init", 0)
    /\ UNCHANGED <<comPort, pollSel, mode, slider, lcdFan, lcdCPU, lcdGPU, pollingStatus,
                   manual_value>>
    /\ UNCHANGED <<appClosed, afterException, userEvents>>
    /\ UNCHANGED <<serPort, gridInit, fanCmd>>
    /\ UNCHANGED <<curveVars, taskVars, sigVars>>
    /\ UNCHANGED <<settingVars, threadCfgVars, lcdAvail>>
    /\ UNCHANGED simVars

\* an init_communication that goes on whatever initialize_grid answered
IcAfterInitAnyAnswer(ok) ==
    /\ uiStack' = Goto("ic_fans", 1)
    /\ UNCHANGED comPort

\* an init_communication whose reset of the combo box emits no
\* currentIndexChanged: init_communication is not re-entered
IcAfterInitNoSignal(ok) ==
    IF ok
    THEN /\ uiStack' = Goto("ic_fans", 1)
         /\ UNCHANGED comPort
    ELSE /\ comPort' = SELECT_PORT
         /\ uiStack' = Goto("ic_failed", 0)

\* what init_communication does with the answer of grid.initialize_grid:
\* on success the fans are initialised next; on failure the port combo box
\* is reset, whose currentIndexChanged re-enters init_communication
IcAfterInit(ok) ==
    IF ok
    THEN /\ uiStack' = Goto("ic_fans", 1)
         /\ UNCHANGED comPort
    ELSE /\ comPort' = SELECT_PORT
         /\ uiStack' = <<Frame("ic_begin", 0)>> \o Goto("ic_failed", 0)

\* grid.initialize_grid(ser, lock): the handshake, which only an open port
\* can answer, and the branch on its result
IcInit ==
    /\ InFrame("ic_init")
    /\ "ui" \in inTransaction
    /\ \E ok \in (IF serOpen THEN BOOLEAN ELSE {FALSE}) :
          /\ gridInit' = ok
          /\ IcAfterInit(ok)
    /\ lock' = "free"
    /\ inTransaction' = inTransaction \ {"ui"}
    /\ UNCHANGED <<pollSel, mode, slider, lcdFan, slidersEnabled, radioEnabled,
                   lcdCPU, lcdGPU, pollingStatus, manual_value>>
    /\ UNCHANGED <<appClosed, afterException, userEvents>>
    /\ UNCHANGED <<serOpen, serPort, fanCmd>>
    /\ UNCHANGED <<curveVars, taskVars, sigVars>>
    /\ UNCHANGED <<settingVars, threadCfgVars, lcdAvail>>
    /\ UNCHANGED simVars

\* an initialize_fans that writes the first channel only
IcFansFirstOnly ==
    /\ InFrame("ic_fans")
    /\ "ui" \in inTransaction
    /\ fanCmd' = set_fan(fanCmd, Top.i, lcdFan[Top.i])
    /\ lock' = "free"
    /\ inTransaction' = inTransaction \ {"ui"}
    /\ uiStack' = Goto("ic_start", 0)
    /\ UNCHANGED <<appClosed, afterException, userEvents>>
    /\ UNCHANGED <<serOpen, serPort, gridInit>>
    /\ UNCHANGED <<curveVars, widgetVars, taskVars, sigVars>>
    /\ UNCHANGED <<settingVars, threadCfgVars, lcdAvail>>
    /\ UNCHANGED simVars

\* initialize_fans: one grid.set_fan per channel with the value its LCD shows
IcFans ==
    /\ InFrame("ic_fans")
    /\ "ui" \in inTransaction
    /\ fanCmd' = set_fan(fanCmd, Top.i, lcdFan[Top.i])
    /\ lock' = "free"
    /\ inTransaction' = inTransaction \ {"ui"}
    /\ uiStack' = IF Top.i < NumFans THEN Goto("ic_fans", Top.i + 1)
                  ELSE Goto("ic_start", 0)
    /\ UNCHANGED <<appClosed, afterException, userEvents>>
    /\ UNCHANGED <<serOpen, serPort, gridInit>>
    /\ UNCHANGED <<curveVars, widgetVars, taskVars, sigVars>>
    /\ UNCHANGED <<settingVars, threadCfgVars, lcdAvail>>
    /\ UNCHANGED simVars

\* update_polling_interval, set_temp_calc, thread.start() and the status
IcStart ==
    /\ InFrame("ic_start")
    /\ pollInterval' = pollSel
    /\ tempCalc' = calcSel
    /\ IF isRunning
       THEN UNCHANGED <<taskPc, keepRunning, commFailures, excReported>>
       ELSE /\ taskPc' = "boundary"
            /\ keepRunning' = TRUE
            /\ commFailures' = 0
            /\ excReported' = 0
    /\ pollingStatus' = "Running"
    /\ uiStack' = Return
    /\ UNCHANGED <<comPort, pollSel, mode, slider, lcdFan, slidersEnabled, radioEnabled,
                   lcdCPU, lcdGPU, manual_value>>
    /\ UNCHANGED <<appClosed, afterException, userEvents>>
    /\ UNCHANGED <<taskFan, taskTemps, fanStatus, decodeFailed>>
    /\ UNCHANGED <<curveVars, portVars, queue>>
    /\ UNCHANGED <<settingVars, sensorIds, cycleCfg, lcdAvail>>
    /\ UNCHANGED simVars

\* back in the outer init_communication after the combo box was reset
IcFailed ==
    /\ InFrame("ic_failed")
    /\ pollingStatus' = "Stopped"
    /\ uiStack' = Return
    /\ UNCHANGED <<comPort, pollSel, mode, slider, lcdFan, slidersEnabled, radioEnabled,
                   lcdCPU, lcdGPU, manual_value>>
    /\ UNCHANGED <<appClosed, afterException, userEvents>>
    /\ UNCHANGED <<curveVars, taskVars, portVars, sigVars>>
    /\ UNCHANGED <<settingVars, threadCfgVars, lcdAvail>>
    /\ UNCHANGED simVars

\* the slot of horizontalSliderFan<i>.valueChanged that calls grid.set_fan
\* with the value of lcdNumberFan<i>
SetFan ==
    /\ InFrame("setfan")
    /\ "ui" \in inTransaction
    /\ fanCmd' = set_fan(fanCmd, Top.i, lcdFan[Top.i])
    /\ lock' = "free"
    /\ inTransaction' = inTransaction \ {"ui"}
    /\ uiStack' = Return
    /\ UNCHANGED <<appClosed, afterException, userEvents>>
    /\ UNCHANGED <<serOpen, serPort, gridInit>>
    /\ UNCHANGED <<curveVars, widgetVars, taskVars, sigVars>>
    /\ UNCHANGED <<settingVars, threadCfgVars, lcdAvail>>
    /\ UNCHANGED simVars

\* a slider whose valueChanged reaches the LCD but not grid.set_fan
SliderSetValueNoWrite(i, v, rest) ==
    IF v = slider[i]
    THEN /\ uiStack' = rest
         /\ UNCHANGED <<slider, lcdFan>>
    ELSE /\ slider' = [slider EXCEPT ![i] = v]
         /\ lcdFan' = [lcdFan EXCEPT ![i] = v]
         /\ uiStack' = rest

\* horizontalSliderFan<i>.setValue(v), by the user or by the program: when
\* the value changes, valueChanged runs its slots in the order they were
\* connected, the LCD first, then grid.set_fan; `rest` is what the UI
\* thread goes on with afterwards
SliderSetValue(i, v, rest) ==
    IF v = slider[i]
    THEN /\ uiStack' = rest
         /\ UNCHANGED <<slider, lcdFan>>
    ELSE /\ slider' = [slider EXCEPT ![i] = v]
         /\ lcdFan' = [lcdFan EXCEPT ![i] = v]
         /\ uiStack' = <<Frame("setfan", i)>> \o rest

\* a user event is taken from the event loop
UserEvent ==
    /\ Idle
    /\ userEvents < MaxUserEvents
    /\ userEvents' = userEvents + 1
    /\ afterException' = FALSE
    /\ UNCHANGED appClosed

\* the user picks another entry of comboBoxComPorts
UserSelectPort ==
    /\ UserEvent
    /\ \E p \in (SerialPorts \cup {SELECT_PORT}) \ {comPort} : comPort' = p
    /\ uiStack' = <<Frame("ic_begin", 0)>>
    /\ UNCHANGED <<pollSel, mode, slider, lcdFan, slidersEnabled, radioEnabled,
                   lcdCPU, lcdGPU, pollingStatus, manual_value>>
    /\ UNCHANGED <<curveVars, taskVars, portVars, sigVars>>
    /\ UNCHANGED <<settingVars, threadCfgVars, lcdAvail>>
    /\ UNCHANGED simVars

\* the user picks another entry of comboBoxPolling
UserSelectPolling ==
    /\ UserEvent
    /\ \E v \in PollingIntervals \ {pollSel} : pollSel' = v
    /\ uiStack' = <<Frame("ic_begin", 0)>>
    /\ UNCHANGED <<comPort, mode, slider, lcdFan, slidersEnabled, radioEnabled,
                   lcdCPU, lcdGPU, pollingStatus, manual_value>>
    /\ UNCHANGED <<curveVars, taskVars, portVars, sigVars>>
    /\ UNCHANGED <<settingVars, threadCfgVars, lcdAvail>>
    /\ UNCHANGED simVars

\* a restart that starts the thread again without init_communication
restartThreadOnly ==
    /\ UserEvent
    /\ uiStack' = <<Frame("ic_start", 0)>>
    /\ UNCHANGED <<curveVars, widgetVars, taskVars, portVars, sigVars>>
    /\ UNCHANGED <<settingVars, threadCfgVars, lcdAvail>>
    /\ UNCHANGED simVars

\* restart: "Restart Communication" clicked; the selected sensors are handed
\* to the thread (update_sensors), then init_communication runs
restart ==
    /\ UserEvent
    /\ sensorIds' = selSensors
    /\ uiStack' = <<Frame("ic_begin", 0)>>
    /\ UNCHANGED <<curveVars, widgetVars, taskVars, portVars, sigVars>>
    /\ UNCHANGED <<settingVars, tempCalc, cycleCfg, lcdAvail>>
    /\ UNCHANGED simVars

\* the user drags the enabled slider of one fan to another value
UserMoveSlider ==
    /\ UserEvent
    /\ slidersEnabled
    /\ \E i \in Fans : \E v \in UserSliderValues \ {slider[i]} :
          SliderSetValue(i, v, <<>>)
    /\ UNCHANGED <<comPort, pollSel, mode, slidersEnabled, radioEnabled,
                   lcdCPU, lcdGPU, pollingStatus, manual_value>>
    /\ UNCHANGED <<curveVars, taskVars, portVars, sigVars>>
    /\ UNCHANGED <<settingVars, threadCfgVars, lcdAvail>>
    /\ UNCHANGED simVars

\* disable_enable_sliders, run by radioButtonManual.toggled: towards
\* automatic the slider values are saved and the sliders disabled; towards
\* manual the saved values are restored one slider after the other
UserToggleMode ==
    /\ UserEvent
    /\ radioEnabled
    /\ IF mode = "manual"
       THEN /\ mode' = "automatic"
            /\ manual_value' = slider
            /\ slidersEnabled' = FALSE
            /\ uiStack' = <<>>
       ELSE /\ mode' = "manual"
            /\ uiStack' = <<Frame("des", 1)>>
            /\ UNCHANGED <<manual_value, slidersEnabled>>
    /\ UNCHANGED <<comPort, pollSel, slider, lcdFan, radioEnabled,
                   lcdCPU, lcdGPU, pollingStatus>>
    /\ UNCHANGED <<curveVars, taskVars, portVars, sigVars>>
    /\ UNCHANGED <<settingVars, threadCfgVars, lcdAvail>>
    /\ UNCHANGED simVars

\* a manual branch of disable_enable_sliders that enables the sliders and
\* restores none
DesStepNoRestore ==
    /\ InFrame("des")
    /\ IF Top.i <= NumFans
       THEN /\ uiStack' = Goto("des", Top.i + 1)
            /\ UNCHANGED slidersEnabled
       ELSE /\ slidersEnabled' = TRUE
            /\ uiStack' = Return
    /\ UNCHANGED <<slider, lcdFan>>
    /\ UNCHANGED <<comPort, pollSel, mode, radioEnabled, lcdCPU, lcdGPU, pollingStatus,
                   manual_value>>
    /\ UNCHANGED <<appClosed, afterException, userEvents>>
    /\ UNCHANGED <<curveVars, taskVars, portVars, sigVars>>
    /\ UNCHANGED <<settingVars, threadCfgVars, lcdAvail>>
    /\ UNCHANGED simVars

\* the manual branch of disable_enable_sliders: slider i is restored; after
\* the sixth the sliders are enabled
DesStep ==
    /\ InFrame("des")
    /\ IF Top.i <= NumFans
       THEN /\ SliderSetValue(Top.i, manual_value[Top.i], Goto("des", Top.i + 1))
            /\ UNCHANGED slidersEnabled
            /\ UNCHANGED simVars
       ELSE /\ slidersEnabled' = TRUE
            /\ uiStack' = Return
            /\ UNCHANGED <<slider, lcdFan>>
            \* checkBoxSimulateTemp.setChecked(False): when it was checked,
            \* stateChanged runs simulate_temperatures, which connects the
            \* thread's temperature signals again
            /\ simChecked' = FALSE
            /\ threadConn' = IF simChecked THEN threadConn + 1 ELSE threadConn
            /\ UNCHANGED <<simTemp, simConn>>
    /\ UNCHANGED <<comPort, pollSel, mode, radioEnabled, lcdCPU, lcdGPU, pollingStatus,
                   manual_value>>
    /\ UNCHANGED <<appClosed, afterException, userEvents>>
    /\ UNCHANGED <<curveVars, taskVars, portVars, sigVars>>
    /\ UNCHANGED <<settingVars, threadCfgVars, lcdAvail>>

\* the loop of update_fan_speed from fan i on, up to the next fan that has
\* a configuration: the fans without one are passed over ("continue")
RECURSIVE NextConfigured(_)
NextConfigured(i) ==
    IF i <= NumFans /\ get_fan(config, i) = <<>> THEN NextConfigured(i + 1) ELSE i

\* where update_fan_speed stands after fan i: at the next configured fan,
\* or back in the caller after the last
UfsFrom(i) ==
    IF NextConfigured(i) > NumFans THEN Return
    ELSE Goto("ufs", NextConfigured(i))

\* the speed update_fan_speed sets the slider of a configured fan to
target_speed(fan, cpu, gpu) ==
    PyRound(config_get_fan_speed(fan, <<cpu>>, <<gpu>>))

\* the signals of one tick arrive: the temperatures are displayed, then
\* update_signal runs update_fan_speed, which does nothing in manual mode
DeliverTick ==
    /\ Idle
    /\ queue # <<>>
    /\ Head(queue).type = "tick"
    /\ queue' = Tail(queue)
    /\ IF Head(queue).shown
       THEN /\ lcdCPU' = Shown(Head(queue).cpu)
            /\ lcdGPU' = Shown(Head(queue).gpu)
            /\ lcdAvail' = [cpu |-> Head(queue).cpu # <<>>, gpu |-> Head(queue).gpu # <<>>]
       ELSE UNCHANGED <<lcdCPU, lcdGPU, lcdAvail>>
    /\ uiStack' = IF mode = "automatic" /\ NextConfigured(1) <= NumFans
                  THEN <<Frame("ufs", NextConfigured(1))>>
                  ELSE <<>>
    /\ UNCHANGED <<comPort, pollSel, mode, slider, lcdFan, slidersEnabled, radioEnabled,
                   pollingStatus, manual_value>>
    /\ UNCHANGED <<appClosed, afterException, userEvents>>
    /\ UNCHANGED <<commFailures, excReported>>
    /\ UNCHANGED <<curveVars, taskVars, portVars>>
    /\ UNCHANGED <<settingVars, threadCfgVars>>
    /\ UNCHANGED simVars

\* an update_fan_speed that looks at the CPU temperature alone
UfsStepCpuOnly ==
    /\ InFrame("ufs")
    /\ LET fan == get_fan(config, Top.i)
       IN  SliderSetValue(Top.i, target_speed(fan[1], lcdCPU, lcdCPU), UfsFrom(Top.i + 1))
    /\ UNCHANGED <<comPort, pollSel, mode, slidersEnabled, radioEnabled,
                   lcdCPU, lcdGPU, pollingStatus, manual_value>>
    /\ UNCHANGED <<appClosed, afterException, userEvents>>
    /\ UNCHANGED <<curveVars, taskVars, portVars, sigVars>>
    /\ UNCHANGED <<settingVars, threadCfgVars, lcdAvail>>
    /\ UNCHANGED simVars

\* update_fan_speed in automatic mode, fan i of the loop: a fan without a
\* configuration is skipped, the slider of any other is set to its speed
UfsStep ==
    /\ InFrame("ufs")
    /\ LET fan == get_fan(config, Top.i)
       IN  SliderSetValue(Top.i, target_speed(fan[1], lcdCPU, lcdGPU), UfsFrom(Top.i + 1))
    /\ UNCHANGED <<comPort, pollSel, mode, slidersEnabled, radioEnabled,
                   lcdCPU, lcdGPU, pollingStatus, manual_value>>
    /\ UNCHANGED <<appClosed, afterException, userEvents>>
    /\ UNCHANGED <<curveVars, taskVars, portVars, sigVars>>
    /\ UNCHANGED <<settingVars, threadCfgVars, lcdAvail>>
    /\ UNCHANGED simVars

\* a thread_exception_handling that leaves the port combo box alone
DeliverExceptionNoReset ==
    /\ Idle
    /\ queue # <<>>
    /\ Head(queue).type = "exception"
    /\ queue' = Tail(queue)
    /\ afterException' = TRUE
    /\ UNCHANGED <<uiStack, appClosed, userEvents>>
    /\ UNCHANGED <<commFailures, excReported>>
    /\ UNCHANGED <<curveVars, widgetVars, taskVars, portVars>>
    /\ UNCHANGED <<settingVars, threadCfgVars, lcdAvail>>
    /\ UNCHANGED simVars

\* thread_exception_handling, run by exception_signal: the message is
\* shown and the port combo box reset, whose currentIndexChanged (emitted
\* when the index changes) runs init_communication
DeliverException ==
    /\ Idle
    /\ queue # <<>>
    /\ Head(queue).type = "exception"
    /\ queue' = Tail(queue)
    /\ afterException' = TRUE
    /\ IF comPort # SELECT_PORT
       THEN /\ comPort' = SELECT_PORT
            /\ uiStack' = <<Frame("ic_begin", 0)>>
       ELSE UNCHANGED <<comPort, uiStack>>
    /\ UNCHANGED <<pollSel, mode, slider, lcdFan, slidersEnabled, radioEnabled,
                   lcdCPU, lcdGPU, pollingStatus, manual_value>>
    /\ UNCHANGED <<appClosed, userEvents>>
    /\ UNCHANGED <<commFailures, excReported>>
    /\ UNCHANGED <<curveVars, taskVars, portVars>>
    /\ UNCHANGED <<settingVars, threadCfgVars, lcdAvail>>
    /\ UNCHANGED simVars

\* closeEvent: a running thread is told to stop and waited for
closeEvent ==
    /\ UserEvent
    /\ IF isRunning
       THEN /\ keepRunning' = FALSE
            /\ uiStack' = <<Frame("close_wait", 0)>>
       ELSE /\ uiStack' = <<Frame("close_accept", 0)>>
            /\ UNCHANGED keepRunning
    /\ UNCHANGED <<taskPc, taskFan, taskTemps, fanStatus, decodeFailed, pollInterval>>
    /\ UNCHANGED <<curveVars, widgetVars, portVars, sigVars>>
    /\ UNCHANGED <<settingVars, threadCfgVars, lcdAvail>>
    /\ UNCHANGED simVars

\* thread.stop() has returned (or was not needed): the event is accepted
\* and the application ends
CloseAccept ==
    /\ \/ InFrame("close_wait") /\ ~isRunning
       \/ InFrame("close_accept")
    /\ appClosed' = TRUE
    /\ uiStack' = Return
    /\ UNCHANGED <<afterException, userEvents>>
    /\ UNCHANGED <<curveVars, widgetVars, taskVars, portVars, sigVars>>
    /\ UNCHANGED <<settingVars, threadCfgVars, lcdAvail>>
    /\ UNCHANGED simVars

UiStep ==
    \/ GridAcquire
    \/ IcBegin
    \/ IcWait
    \/ IcCloseAcquire
    \/ IcClose
    \/ IcSetup
    \/ IcOpen
    \/ IcInit
    \/ IcFans
    \/ IcStart
    \/ IcFailed
    \/ SetFan
    \/ DesStep
    \/ UfsStep
    \/ CloseAccept

UiEvent ==
    \/ UserSelectPort
    \/ UserSelectPolling
    \/ restart
    \/ UserMoveSlider
    \/ UserToggleMode
    \/ closeEvent
    \/ DeliverTick
    \/ DeliverException

\* the calls under evaluation in SpecCurve play no part here
CurveAtRest ==
    /\ curve = <<>>
    /\ temp = 0
    /\ speed = <<>>
    /\ calls = 0
    /\ fan_curves = <<>>
    /\ cpu_temp = <<>>
    /\ gpu_temp = <<>>
    /\ fan_speed = <<>>
    /\ heap = <<>>
    /\ instances = <<>>

\* the window as it is started in the usual case: the configuration document
\* was read, and the settings restored have a sensor selected for each
\* subsystem
SettingsAsSaved ==
    /\ selSensors = AllSensors
    /\ calcSel = [cpu |-> "Max", gpu |-> "Max"]
    /\ config = ConfigFile

Init == SettingsAsSaved /\ InitSys /\ CurveAtRest

Next == UiStep \/ UiEvent \/ TaskNext

Spec == Init /\ [][Next]_vars

(***************************************************************************)
(* SpecSettings: the window with its settings in play.  The configuration  *)
(* document may fail to load, any subsystem may have no sensor selected,   *)
(* and the user edits the Sensor Config tab.                               *)
(***************************************************************************)
\* what load_configuration finds at config.json
Documents == {"readable", "missing", "unparsable"}

\* FanConfigurationFile(): the mapping of a file made without arguments
EmptyConfiguration == <<>>

\* load_configuration(): the document's mapping, or, when open() or
\* from_json raise, the empty FanConfigurationFile()
load_configuration(document) ==
    IF document = "readable" THEN ConfigFile ELSE EmptyConfiguration

\* add_cpu_sensors / add_gpu_sensors / remove_cpu_sensors /
\* remove_gpu_sensors: the tree of selected sensors changes; nothing is
\* handed to the thread
UserEditSensors ==
    /\ UserEvent
    /\ \E k \in {"cpu", "gpu"} :
          selSensors' = [selSensors EXCEPT
                            ![k] = IF selSensors[k] = {} THEN AllSensors[k] ELSE {}]
    /\ uiStack' = <<>>
    /\ UNCHANGED <<calcSel, config, lcdAvail, simVars>>
    /\ UNCHANGED <<curveVars, widgetVars, taskVars, portVars, sigVars, threadCfgVars>>

\* radioButtonCPUMax/Avg, radioButtonGPUMax/Avg: no slot is connected; the
\* choice is read by init_communication
UserToggleCalc ==
    /\ UserEvent
    /\ \E k \in {"cpu", "gpu"} :
          calcSel' = [calcSel EXCEPT ![k] = IF calcSel[k] = "Max" THEN "Avg" ELSE "Max"]
    /\ uiStack' = <<>>
    /\ UNCHANGED <<selSensors, config, lcdAvail, simVars>>
    /\ UNCHANGED <<curveVars, widgetVars, taskVars, portVars, sigVars, threadCfgVars>>

InitSettings ==
    /\ selSensors \in [cpu : {{}, AllSensors.cpu}, gpu : {{}, AllSensors.gpu}]
    /\ calcSel = [cpu |-> "Max", gpu |-> "Max"]
    /\ \E document \in Documents : config = load_configuration(document)
    /\ InitSys
    /\ CurveAtRest

NextSettings == Next \/ UserEditSensors \/ UserToggleCalc

SpecSettings == InitSettings /\ [][NextSettings]_vars

(***************************************************************************)
(* SpecSimulate: the window with the "Simulate temperatures" group box in  *)
(* play.                                                                   *)
(***************************************************************************)
\* the value the user drags a simulation slider to
SimTemps == {80}

\* simulate_temperatures, run by checkBoxSimulateTemp.stateChanged; the
\* check box can be clicked in automatic mode with a port selected
UserToggleSimulate ==
    /\ UserEvent
    /\ radioEnabled
    /\ mode = "automatic"
    /\ IF ~simChecked
       THEN /\ simChecked' = TRUE
            /\ lcdCPU' = simTemp.cpu
            /\ lcdGPU' = simTemp.gpu
            /\ lcdAvail' = [cpu |-> TRUE, gpu |-> TRUE]
            /\ threadConn > 0
            /\ threadConn' = 0
            /\ simConn' = simConn + 1
       ELSE /\ simChecked' = FALSE
            /\ threadConn' = threadConn + 1
            /\ UNCHANGED <<lcdCPU, lcdGPU, lcdAvail, simConn>>
    /\ uiStack' = <<>>
    /\ UNCHANGED simTemp
    /\ UNCHANGED <<comPort, pollSel, mode, slider, lcdFan, slidersEnabled, radioEnabled,
                   pollingStatus, manual_value>>
    /\ UNCHANGED <<curveVars, taskVars, portVars, sigVars>>
    /\ UNCHANGED <<settingVars, threadCfgVars>>

\* the user drags an enabled simulation slider; its valueChanged reaches the
\* LCD it is connected to
UserMoveSimSlider ==
    /\ UserEvent
    /\ radioEnabled
    /\ mode = "automatic"
    /\ simChecked
    /\ \E k \in {"cpu", "gpu"} : \E v \in SimTemps \ {simTemp[k]} :
          /\ simTemp' = [simTemp EXCEPT ![k] = v]
          /\ IF simConn > 0
             THEN /\ lcdCPU' = IF k = "cpu" THEN v ELSE lcdCPU
                  /\ lcdGPU' = IF k = "gpu" THEN v ELSE lcdGPU
                  /\ lcdAvail' = [lcdAvail EXCEPT ![k] = TRUE]
             ELSE UNCHANGED <<lcdCPU, lcdGPU, lcdAvail>>
    /\ uiStack' = <<>>
    /\ UNCHANGED <<simChecked, threadConn, simConn>>
    /\ UNCHANGED <<comPort, pollSel, mode, slider, lcdFan, slidersEnabled, radioEnabled,
                   pollingStatus, manual_value>>
    /\ UNCHANGED <<curveVars, taskVars, portVars, sigVars>>
    /\ UNCHANGED <<settingVars, threadCfgVars>>

NextSimulate == Next \/ UserToggleSimulate \/ UserMoveSimSlider

SpecSimulate == Init /\ [][NextSimulate]_vars

\* the scheduling the claims about progress rest on: the polling thread
\* runs on while it can, a UI thread blocked in grid.* gets the lock once it
\* is released often enough, and then makes its port operation
FairSpec ==
    /\ Spec
    /\ WF_vars(TaskNext)
    /\ SF_vars(GridAcquire)
    /\ WF_vars(SetFan)

(***************************************************************************)
(* SpecCurve: the functions of config.py applied to drawn inputs.          *)
(***************************************************************************)
CurvePoints == {FanCurvePoint(t, s) : t \in CurveTemps, s \in CurveSpeeds}

RECURSIVE SeqsUpTo(_, _)
SeqsUpTo(S, n) ==
    IF n = 0 THEN {<<>>}
    ELSE LET shorter == SeqsUpTo(S, n - 1)
         IN  shorter \cup {Append(q, x) : q \in {r \in shorter : Len(r) = n - 1}, x \in S}

\* the curves drawn: every sequence of points up to the bound, and the curve
\* of the configuration document
Curves == SeqsUpTo(CurvePoints, MaxPoints) \cup {CpuCurve}

\* the temperatures a curve is evaluated at
QueryTemps == CurveTemps \cup {10, 35, 55}

\* the curves drawn for a role of a FanConfiguration
ConfigPoints == {FanCurvePoint(t, s) : t \in {20, 50, 90}, s \in {0, 50, 100}}
ConfigCurves == SeqsUpTo(ConfigPoints, MaxConfigPoints) \cup {CpuCurve, GpuCurve}

\* the FanConfigurations drawn: a curve for any of the roles cpu and gpu
FanConfigurations ==
    UNION {[roles -> ConfigCurves] : roles \in SUBSET {"cpu", "gpu"}}

\* the temperatures a FanConfiguration is evaluated at, None included
ConfigTemps == {<<>>} \cup {<<t>> : t \in {0, 35, 80, 100}}

\* the window rests while the functions are applied
SysAtRest ==
    /\ SettingsAsSaved
    /\ InitSys
    /\ comPort = SELECT_PORT
    /\ mode = "manual"

\* either a FanCurve or a FanConfiguration is drawn to be evaluated
InitCurve ==
    /\ \/ /\ curve \in Curves
          /\ temp \in QueryTemps
          /\ fan_curves = <<>>
          /\ cpu_temp = <<>>
          /\ gpu_temp = <<>>
       \/ /\ curve = <<>>
          /\ temp = 0
          /\ fan_curves \in FanConfigurations
          /\ cpu_temp \in ConfigTemps
          /\ gpu_temp \in ConfigTemps
    /\ speed = <<>>
    /\ fan_speed = <<>>
    /\ calls = 0
    /\ heap = <<>>
    /\ instances = <<>>
    /\ SysAtRest

\* one call of FanCurve.get_fan_speed(temp) on the drawn curve
Call_get_fan_speed ==
    /\ calls = 0
    /\ speed' = <<get_fan_speed(curve, temp)>>
    /\ calls' = calls + 1
    /\ UNCHANGED <<curve, temp, fan_curves, cpu_temp, gpu_temp, fan_speed>>
    /\ UNCHANGED <<heap, instances>>
    /\ UNCHANGED sysVars

\* one call of FanConfiguration.get_fan_speed(cpu_temp, gpu_temp) on the
\* drawn configuration
Call_config_get_fan_speed ==
    /\ calls = 0
    /\ fan_speed' = <<config_get_fan_speed(fan_curves, cpu_temp, gpu_temp)>>
    /\ calls' = calls + 1
    /\ UNCHANGED <<curve, temp, speed, fan_curves, cpu_temp, gpu_temp>>
    /\ UNCHANGED <<heap, instances>>
    /\ UNCHANGED sysVars

NextCurve == Call_get_fan_speed \/ Call_config_get_fan_speed

SpecCurve == InitCurve /\ [][NextCurve]_vars

(***************************************************************************)
(* SpecObjects: the constructors of config.py. A default argument of a     *)
(* Python function is evaluated once, when the def statement runs, and     *)
(* every call that omits the argument receives that one object.            *)
(***************************************************************************)
Classes == {"FanCurve", "FanConfiguration", "FanConfigurationFile"}

\* the container made when the class body ran: the [] of points=[], the []
\* of fan_curves=[], the {} of fan_configurations={}
DefaultContainer(cls) ==
    CASE cls = "FanCurve" -> 1
      [] cls = "FanConfiguration" -> 2
      [] cls = "FanConfigurationFile" -> 3

\* what is added to a container: a point, a curve, a configuration
Items == {"x", "y"}

\* the module was imported: the three default containers exist and are empty
InitObjects ==
    /\ heap = << <<>>, <<>>, <<>> >>
    /\ instances = <<>>
    /\ curve = <<>>
    /\ temp = 0
    /\ speed = <<>>
    /\ calls = 0
    /\ fan_curves = <<>>
    /\ cpu_temp = <<>>
    /\ gpu_temp = <<>>
    /\ fan_speed = <<>>
    /\ SysAtRest

\* cls(): __init__ stores the default argument in the instance
Construct ==
    /\ Len(instances) < MaxInstances
    /\ \E cls \in Classes :
          instances' = Append(instances, [cls |-> cls, container |-> DefaultContainer(cls)])
    /\ UNCHANGED heap
    /\ UNCHANGED <<curve, temp, speed, calls, fan_curves, cpu_temp, gpu_temp, fan_speed>>
    /\ UNCHANGED sysVars

\* cls(container): __init__ stores the container the caller made for it
ConstructWith ==
    /\ Len(instances) < MaxInstances
    /\ heap' = Append(heap, <<>>)
    /\ \E cls \in Classes :
          instances' = Append(instances, [cls |-> cls, container |-> Len(heap) + 1])
    /\ UNCHANGED <<curve, temp, speed, calls, fan_curves, cpu_temp, gpu_temp, fan_speed>>
    /\ UNCHANGED sysVars

\* an item is added to the points, fan_curves or fan_configurations of
\* instance k
AddItem ==
    /\ \E k \in 1..Len(instances), item \in Items :
          /\ Len(heap[instances[k].container]) < MaxItems
          /\ heap' = [heap EXCEPT ![instances[k].container] = Append(@, item)]
    /\ UNCHANGED instances
    /\ UNCHANGED <<curve, temp, speed, calls, fan_curves, cpu_temp, gpu_temp, fan_speed>>
    /\ UNCHANGED sysVars

NextObjects == Construct \/ ConstructWith \/ AddItem

SpecObjects == InitObjects /\ [][NextObjects]_vars

(***************************************************************************)
(* C1: for every curve (empty, duplicate temperatures, inverted, speeds    *)
(* out of range) and every temperature, the value get_fan_speed returns    *)
(* lies in [0, 100].                                                       *)
(***************************************************************************)
C1_SpeedInRange ==
    speed # <<>> =>
        /\ FLe(FracOfInt(0), speed[1])
        /\ FLe(speed[1], FracOfInt(100))

\* a call on the empty curve above the default upper boundary, where the
\* interpolated value (10 + 80*90/70) exceeds 100 and the clamp acts
C1_Witness ==
    /\ curve = <<>>
    /\ temp = 100
    /\ speed = <<FracOfInt(100)>>
    /\ FLt(FracOfInt(100), raw_fan_speed(curve, temp))
(***************************************************************************)
(* C2: every port operation of the UI thread and of the polling thread is  *)
(* made while its thread holds the one lock, so at most one port           *)
(* transaction is in flight.                                               *)
(***************************************************************************)
C2_PortUnderLock ==
    /\ "ui" \in inTransaction => lock = "ui"
    /\ "task" \in inTransaction => lock = "task"
    /\ Cardinality(inTransaction) <= 1

\* the UI thread blocked at the lock for a set-fan write while a read of
\* the polling thread is in flight
C2_Witness ==
    /\ InFrame("setfan")
    /\ "ui" \notin inTransaction
    /\ "task" \in inTransaction
    /\ lock = "task"

(***************************************************************************)
(* C3: a set-fan call issued while the polling thread is running gets the  *)
(* lock and reaches the device: whenever a slider differs from what the    *)
(* device was last told while the thread runs, the device is eventually    *)
(* told the slider's value; and no set-fan write is in flight together     *)
(* with a read of the polling thread.                                      *)
(***************************************************************************)
C3_SetFanApplied ==
    /\ \A i \in Fans :
          (isRunning /\ slider[i] # fanCmd[i]) ~> (fanCmd[i] = slider[i])
    /\ [](InFrame("setfan") /\ "ui" \in inTransaction => "task" \notin inTransaction)

\* update_fan_speed has changed the sliders of fans 1 and 2 in one tick and
\* waits at the lock for the first write while the thread is in a read
C3_Witness ==
    /\ InFrame("setfan")
    /\ Top.i = 1
    /\ Len(uiStack) = 2
    /\ uiStack[2].op = "ufs"
    /\ lock = "task"
    /\ taskPc \in {"rpm", "volt"}
    /\ slider[1] # fanCmd[1]

(***************************************************************************)
(* C4: once stop() was called on the running thread, the thread begins no  *)
(* further cycle and reaches Stopped; a stopped thread has no port         *)
(* transaction in flight and stays stopped until thread.start().           *)
(***************************************************************************)
C4_StopReachesStopped ==
    /\ [][~keepRunning => ~(taskPc = "boundary" /\ taskPc' = "rpm")]_vars
    /\ (isRunning /\ ~keepRunning) ~> ~isRunning
    /\ [](~isRunning => "task" \notin inTransaction /\ lock # "task")
    /\ [][~isRunning /\ isRunning' => InFrame("ic_start")]_vars

\* init_communication waits in thread.stop() and the thread has ended
C4_Witness ==
    /\ InFrame("ic_wait")
    /\ ~keepRunning
    /\ ~isRunning

(***************************************************************************)
(* C5: the port is closed and opened only by a UI thread that holds the    *)
(* lock while the polling thread is stopped; the polling thread runs, and  *)
(* reads, only on an open port.                                            *)
(***************************************************************************)
C5_CloseReopenGuarded ==
    /\ (InFrame("ic_close") \/ InFrame("ic_open")) /\ "ui" \in inTransaction
          => lock = "ui" /\ ~isRunning
    /\ "task" \in inTransaction => serOpen
    /\ isRunning => serOpen

\* the open port is about to be closed, inside the lock, by an
\* init_communication that has stopped the running thread
C5_Witness ==
    /\ InFrame("ic_close")
    /\ "ui" \in inTransaction
    /\ serOpen
    /\ ~keepRunning
    /\ ~isRunning

(***************************************************************************)
(* C6: thread.start() is reached only with the port open and the device    *)
(* initialised in this call of init_communication; with no port selected,  *)
(* or after a failed initialisation, the thread is not running.            *)
(***************************************************************************)
C6_StartAfterInit ==
    /\ InFrame("ic_start") => serOpen /\ gridInit /\ comPort # SELECT_PORT
    /\ isRunning => serOpen /\ gridInit
    /\ InFrame("ic_failed") => ~isRunning
    /\ Idle /\ comPort = SELECT_PORT => ~isRunning

\* the thread runs after an init_communication that the user caused
C6_Witness ==
    /\ Idle
    /\ userEvents > 0
    /\ isRunning
    /\ pollingStatus = "Running"

(***************************************************************************)
(* C7: thread.start() is only ever called on a stopped thread, whatever    *)
(* start-up, port, polling-interval, restart and fatal-error events came   *)
(* before.                                                                 *)
(***************************************************************************)
C7_StartOnlyWhenStopped ==
    InFrame("ic_start") => ~isRunning

\* thread.start() is about to be called by an init_communication that
\* found the thread running and stopped it
C7_Witness ==
    /\ InFrame("ic_start")
    /\ userEvents > 0
    /\ ~keepRunning

(***************************************************************************)
(* C8: a failed read is reported by exactly one fatal-error event and ends *)
(* the thread; once thread_exception_handling has run, and until the user  *)
(* acts, the thread is stopped, the port closed and no port selected; and  *)
(* with no port selected the thread is never running.                      *)
(***************************************************************************)
C8_FatalErrorHandled ==
    /\ excReported = commFailures
    /\ excReported <= 1
    /\ commFailures > 0 => ~isRunning
    /\ Idle /\ afterException => ~isRunning /\ ~serOpen /\ comPort = SELECT_PORT
    /\ Idle /\ comPort = SELECT_PORT => ~isRunning /\ ~serOpen

\* the fatal-error event of a failed read has been handled
C8_Witness ==
    /\ Idle
    /\ afterException
    /\ excReported = 1
    /\ queue = <<>>

C10_DecodeFailureIsLocal ==
    /\ taskPc \in {"rpm", "volt"} =>
          \A i \in 1..(taskFan - 1) :
             fanStatus[i] = IF i \in decodeFailed THEN "unknown" ELSE "ok"
    /\ taskPc = "publish" =>
          \A i \in Fans :
             fanStatus[i] = IF i \in decodeFailed THEN "unknown" ELSE "ok"

\* the end of a tick in which a read of channel 3 failed to decode
C10_Witness ==
    /\ taskPc = "publish"
    /\ decodeFailed = {3}
    /\ fanStatus = [i \in Fans |-> IF i = 3 THEN "unknown" ELSE "ok"]

C12_Interpolates ==
    LET ascending == \A i \in 1..(Len(curve) - 1) : curve[i].temp < curve[i + 1].temp
        \* s1*(t2-t1) + (t-t1)*(s2-s1), the value times (t2-t1)
        num(p, q) == p.speed * (q.temp - p.temp) + (temp - p.temp) * (q.speed - p.speed)
        den(p, q) == q.temp - p.temp
    IN  /\ (speed # <<>> /\ ascending) =>
            \A i \in 1..(Len(curve) - 1) :
                (curve[i].temp < temp /\ temp < curve[i + 1].temp) =>
                    LET n == num(curve[i], curve[i + 1])
                        d == den(curve[i], curve[i + 1])
                    IN  /\ (curve[i].speed \in 0..100 /\ curve[i + 1].speed \in 0..100)
                            => speed[1].n * d = speed[1].d * n
                        /\ n < 0 => speed[1] = FracOfInt(0)
                        /\ n > 100 * d => speed[1] = FracOfInt(100)
                        /\ (0 <= n /\ n <= 100 * d) => speed[1].n * d = speed[1].d * n
        /\ (speed # <<>> /\ curve = CpuCurve /\ temp = 35) => speed[1] = FracOfInt(30)

\* the curve of the example evaluated at 35, between (20,10) and (50,50)
C12_Witness ==
    /\ curve = <<FanCurvePoint(20, 10), FanCurvePoint(50, 50), FanCurvePoint(90, 100)>>
    /\ temp = 35
    /\ speed = <<FracOfInt(30)>>

(***************************************************************************)
(* C13: when the curve has points and all of them lie above the            *)
(* temperature, get_fan_speed returns a value (it does not fail): the      *)
(* interpolation between the default lower boundary (20,10) and the first  *)
(* point of the curve, clamped to [0,100]; the curve's own first segment   *)
(* plays no part. For the curve [(20,10),(50,50),(90,100)] the value at 10 *)
(* is 10.                                                                  *)
(***************************************************************************)
C13_DefaultLower ==
    LET above == curve # <<>> /\ \A i \in 1..Len(curve) : curve[i].temp > temp
        first == curve[1]
        between == IF first.temp = 20 THEN FracOfInt(10)
                   ELSE Frac(10 * (first.temp - 20) + (temp - 20) * (first.speed - 10),
                             first.temp - 20)
    IN  /\ (speed # <<>> /\ above) =>
            speed[1] = PyMin(FracOfInt(100), PyMax(FracOfInt(0), between))
        /\ (speed # <<>> /\ curve = CpuCurve /\ temp = 10) => speed[1] = FracOfInt(10)

\* a curve that begins at 50 evaluated at 20: the value is the default
\* boundary's 10, where the curve's own first segment extended gives 12.5
C13_Witness ==
    /\ curve = <<FanCurvePoint(50, 50), FanCurvePoint(90, 100)>>
    /\ temp = 20
    /\ speed = <<FracOfInt(10)>>

C15_EmptyCurve ==
    /\ (speed # <<>> /\ curve = <<>>) =>
          speed[1] = PyMin(FracOfInt(100),
                           PyMax(FracOfInt(0), Frac(10 * 70 + (temp - 20) * 90, 70)))
    /\ (speed # <<>> /\ curve = <<>> /\ temp = 55) => speed[1] = FracOfInt(55)

\* the empty curve evaluated at 55
C15_Witness ==
    /\ curve = <<>>
    /\ temp = 55
    /\ speed = <<FracOfInt(55)>>

(***************************************************************************)
(* C16: for every curve (duplicate and inverted temperatures included) and *)
(* every temperature, get_fan_speed divides by no zero and returns a       *)
(* number; whenever the lower and the upper point it selected have equal   *)
(* temperatures, the value is the lower point's speed (clamped to [0,100]  *)
(* like every value).                                                      *)
(***************************************************************************)
C16_EqualTemperatures ==
    speed # <<>> =>
        /\ raw_fan_speed(curve, temp).d > 0
        /\ speed[1].d > 0
        /\ lower_point(curve, temp).temp = upper_point(curve, temp).temp =>
              speed[1] = PyMin(FracOfInt(100),
                               PyMax(FracOfInt(0),
                                     FracOfInt(lower_point(curve, temp).speed)))

\* two points at 50 evaluated at 50: the lower point selected is the last of
\* them, the upper point the first, and the value is the lower point's 100
C16_Witness ==
    /\ curve = <<FanCurvePoint(50, 10), FanCurvePoint(50, 100)>>
    /\ temp = 50
    /\ lower_point(curve, temp) = FanCurvePoint(50, 100)
    /\ upper_point(curve, temp) = FanCurvePoint(50, 10)
    /\ speed = <<FracOfInt(100)>>

(***************************************************************************)
(* C17: FanConfiguration.get_fan_speed(cpu_temp, gpu_temp) returns the     *)
(* greater of the cpu and the gpu contribution; the contribution of a role *)
(* is its curve's get_fan_speed at the role's temperature, and 0 when the  *)
(* configuration has no curve for the role or the temperature is None.     *)
(***************************************************************************)
C17_MaxOfContributions ==
    LET contribution(role, t) ==
            IF role \in DOMAIN fan_curves /\ t # <<>>
            THEN get_fan_speed(fan_curves[role], t[1])
            ELSE FracOfInt(0)
        cpu == contribution("cpu", cpu_temp)
        gpu == contribution("gpu", gpu_temp)
    IN  fan_speed # <<>> =>
            /\ FLe(cpu, fan_speed[1])
            /\ FLe(gpu, fan_speed[1])
            /\ fan_speed[1] \in {cpu, gpu}

\* both roles have a curve and a temperature, and the gpu curve asks for more
\* (60 at 80) than the cpu curve (30 at 35)
C17_Witness ==
    /\ fan_curves = [cpu |-> CpuCurve, gpu |-> GpuCurve]
    /\ cpu_temp = <<35>>
    /\ gpu_temp = <<80>>
    /\ fan_speed = <<FracOfInt(60)>>

(***************************************************************************)
(* C18: for a FanConfiguration with a cpu curve and no gpu curve,          *)
(* get_fan_speed(cpu_temp, gpu_temp) with a cpu temperature given returns  *)
(* what the cpu curve's get_fan_speed returns at cpu_temp, whatever        *)
(* gpu_temp is; the gpu role contributes 0.                                *)
(***************************************************************************)
C18_CpuOnly ==
    (fan_speed # <<>> /\ DOMAIN fan_curves = {"cpu"}) =>
        /\ cpu_temp # <<>> => fan_speed[1] = get_fan_speed(fan_curves["cpu"], cpu_temp[1])
        /\ \A t \in {0, 35, 80, 100} : get_GPU_fan_speed(fan_curves, t) = FracOfInt(0)

\* the example: only a cpu curve, both temperatures 80; the value is the cpu
\* curve's 50 + 30*50/40 = 87.5
C18_Witness ==
    /\ DOMAIN fan_curves = {"cpu"}
    /\ fan_curves["cpu"] = CpuCurve
    /\ cpu_temp = <<80>>
    /\ gpu_temp = <<80>>
    /\ fan_speed = <<Frac(175, 2)>>

(***************************************************************************)
(* C19: in automatic mode, when update_fan_speed sets the slider of a fan  *)
(* while the temperature of a subsystem is unavailable (its sensor-ID set  *)
(* is empty, or the readings were reset), the curve of that subsystem      *)
(* contributes 0: the slider is set to the rounded speed of the fan's      *)
(* configuration evaluated with None for that temperature.                 *)
(***************************************************************************)
C19_UnavailableContributesZero ==
    [][
        (InFrame("ufs") /\ uiStack' # uiStack)
           => slider'[Top.i]
                 = PyRound(config_get_fan_speed(config[Top.i],
                                                IF lcdAvail.cpu THEN <<lcdCPU>> ELSE <<>>,
                                                IF lcdAvail.gpu THEN <<lcdGPU>> ELSE <<>>))
    ]_vars

(***************************************************************************)
(* C20: load_configuration returns the empty mapping for a missing and for *)
(* an unparsable document, and with the empty mapping a tick handled in    *)
(* automatic mode leaves every one of the six channels at speed 0.         *)
(***************************************************************************)
C20_EmptyConfigurationDrivesZero ==
    /\ \A document \in Documents \ {"readable"} :
          load_configuration(document) = EmptyConfiguration
    /\ [][
          (Idle /\ queue # <<>> /\ Head(queue).type = "tick" /\ queue' = Tail(queue)
                /\ mode = "automatic" /\ config = EmptyConfiguration)
             => \A i \in Fans : slider'[i] = 0 /\ (serOpen => fanCmd'[i] = 0)
       ]_vars

(***************************************************************************)
(* C24: for a curve in ascending order of temperature whose speeds do not  *)
(* decrease and lie in 0..100, get_fan_speed does not decrease with the    *)
(* temperature: the value at a temperature is at most the value at any     *)
(* higher temperature, below the first and above the last point included.  *)
(***************************************************************************)
C24_Monotone ==
    LET ordered == \A i \in 1..(Len(curve) - 1) : curve[i].temp <= curve[i + 1].temp
        rising == \A i \in 1..(Len(curve) - 1) : curve[i].speed <= curve[i + 1].speed
        inrange == \A i \in 1..Len(curve) : curve[i].speed \in 0..100
    IN  (speed # <<>> /\ ordered /\ rising /\ inrange) =>
            \A t2 \in QueryTemps :
                temp <= t2 => FLe(speed[1], get_fan_speed(curve, t2))

(***************************************************************************)
(* C25: for a curve in ascending order of temperature, get_fan_speed at    *)
(* the temperature of a point of the curve returns the speed of the last   *)
(* point of the sequence that has this temperature (the point's own speed  *)
(* when no other point shares it): exactly for speeds in 0..100, clamped   *)
(* to [0,100] for any speed.                                               *)
(***************************************************************************)
C25_ConfiguredPoint ==
    LET ordered == \A i \in 1..(Len(curve) - 1) : curve[i].temp <= curve[i + 1].temp
        at == {i \in 1..Len(curve) : curve[i].temp = temp}
        last == CHOOSE i \in at : \A j \in at : j <= i
    IN  (speed # <<>> /\ ordered /\ at # {}) =>
            /\ speed[1] = PyMin(FracOfInt(100),
                                PyMax(FracOfInt(0), FracOfInt(curve[last].speed)))
            /\ curve[last].speed \in 0..100 => speed[1] = FracOfInt(curve[last].speed)

\* two points at 50, the first with speed 100 and the last with speed 10,
\* evaluated at 50: the value is the last point's 10
C25_Witness ==
    /\ curve = <<FanCurvePoint(50, 100), FanCurvePoint(50, 10)>>
    /\ temp = 50
    /\ speed = <<FracOfInt(10)>>

(***************************************************************************)
(* C23: instances of FanCurve, FanConfiguration and FanConfigurationFile   *)
(* constructed without arguments own independent containers: adding an     *)
(* item to the points, fan_curves or fan_configurations of one instance    *)
(* changes what no other instance holds.                                   *)
(***************************************************************************)
C23_IndependentContainers ==
    [][
        (instances' = instances /\ heap' # heap)
           => Cardinality({k \in 1..Len(instances) :
                             heap'[instances[k].container]
                                # heap[instances[k].container]}) <= 1
    ]_vars

(***************************************************************************)
(* C26: when initialize_grid fails inside init_communication, the port     *)
(* combo box is reset to '<Select port>' and init_communication is         *)
(* re-entered; when the outer call goes on after it and returns, the port  *)
(* is closed, the polling thread is not running and the polling status is  *)
(* 'Stopped'.                                                              *)
(***************************************************************************)
C26_FailedInitClosesPort ==
    /\ [](InFrame("ic_failed") => (~serOpen /\ ~isRunning /\ comPort = SELECT_PORT))
    /\ [][
          (InFrame("ic_init") /\ uiStack' # uiStack /\ ~gridInit')
             => (comPort' = SELECT_PORT
                   /\ uiStack' = <<Frame("ic_begin", 0), Frame("ic_failed", 0)>> \o Tail(uiStack))
       ]_vars
    /\ [][
          (InFrame("ic_failed") /\ uiStack' # uiStack)
             => (uiStack' = Tail(uiStack) /\ pollingStatus' = "Stopped"
                   /\ ~serOpen' /\ taskPc' = "stopped")
       ]_vars

\* the handshake failed on a port that had been opened: init_communication
\* is entered again, inside the outer call, with the port still open
C26_Witness ==
    /\ Len(uiStack) >= 2
    /\ uiStack[1] = Frame("ic_begin", 0)
    /\ uiStack[2] = Frame("ic_failed", 0)
    /\ serOpen
    /\ serPort = "COM1"
    /\ comPort = SELECT_PORT

(***************************************************************************)
(* C21: init_communication is idempotent: whenever it completes with the   *)
(* device initialised, whether it ran before or not, it leaves the state   *)
(* its inputs alone determine: the selected port open and initialised, all *)
(* six channels written with their slider values, the polling interval     *)
(* selected, the polling thread started once from the stopped state, the   *)
(* status 'Running'. A second run with the same port selection and the     *)
(* same slider values therefore leaves what the first left.                *)
(***************************************************************************)
C21_InitIdempotent ==
    [][
        (InFrame("ic_start") /\ uiStack' # uiStack)
           => /\ taskPc = "stopped"
              /\ taskPc' = "boundary"
              /\ keepRunning'
              /\ serOpen' /\ gridInit'
              /\ serPort' = comPort'
              /\ \A i \in Fans : fanCmd'[i] = slider'[i]
              /\ pollInterval' = pollSel'
              /\ pollingStatus' = "Running"
              /\ lock' = "free" /\ inTransaction' = {}
              /\ <<comPort', pollSel', mode', slider', manual_value'>>
                    = <<comPort, pollSel, mode, slider, manual_value>>
    ]_vars

\* a second run on the port and the interval of the first: the fans are
\* about to be written while every channel still has the slider value the
\* first run wrote, and the thread of the first run was stopped
C21_Witness ==
    /\ InFrame("ic_fans")
    /\ Top.i = 1
    /\ userEvents = 1
    /\ comPort = "COM1"
    /\ pollSel = 500
    /\ \A i \in Fans : fanCmd[i] = slider[i] /\ slider[i] = SavedSlider
    /\ taskPc = "stopped"

(***************************************************************************)
(* C22: the switch from manual to automatic saves the value of each of the *)
(* six sliders; nothing else changes the saved values; the switch back to  *)
(* manual sets every slider to its saved value, whatever automatic mode    *)
(* set in between, and the sliders are enabled again when all six have     *)
(* their saved values.                                                     *)
(***************************************************************************)
C22_ManualValuesRestored ==
    /\ [][
          (mode = "manual" /\ mode' = "automatic")
             => (manual_value' = slider /\ slider' = slider)
       ]_vars
    /\ [][
          manual_value' # manual_value => (mode = "manual" /\ mode' = "automatic")
       ]_vars
    /\ [][
          (mode = "automatic" /\ mode' = "manual") => uiStack' = <<Frame("des", 1)>>
       ]_vars
    /\ [][
          (InFrame("des") /\ uiStack' # uiStack /\ Top.i <= NumFans)
             => slider'[Top.i] = manual_value[Top.i]
       ]_vars
    /\ [](InFrame("des") =>
             \A j \in Fans : j < Top.i => slider[j] = manual_value[j])
    /\ [][
          (InFrame("des") /\ uiStack' # uiStack /\ Top.i > NumFans)
             => (slider' = manual_value /\ slidersEnabled')
       ]_vars

\* back in manual mode, the slider of fan 1 is restored to the saved 50 and
\* that of fan 2 still has the 60 automatic mode set
C22_Witness ==
    /\ InFrame("des")
    /\ Top.i = 2
    /\ mode = "manual"
    /\ slider[1] = manual_value[1]
    /\ manual_value[2] = SavedSlider
    /\ slider[2] = 60

(***************************************************************************)
(* C27: once init_communication has succeeded (port open, device           *)
(* initialised) and the UI thread is back in its event loop, the speed     *)
(* last written to each channel is the value of its slider. Every change   *)
(* of a slider value updates the percentage display in the same step and   *)
(* is followed by exactly one grid.set_fan for that channel, and that      *)
(* write carries the slider's new value and touches no other channel.      *)
(***************************************************************************)
C27_WrittenMatchesSlider ==
    /\ []((Idle /\ serOpen /\ gridInit) =>
             \A i \in Fans : fanCmd[i] = slider[i] /\ lcdFan[i] = slider[i])
    /\ [][
          \A i \in Fans :
             slider'[i] # slider[i]
                => /\ lcdFan'[i] = slider'[i]
                   /\ uiStack' # <<>>
                   /\ uiStack'[1] = Frame("setfan", i)
                   /\ Cardinality({k \in 1..Len(uiStack') :
                                     uiStack'[k] = Frame("setfan", i)}) = 1
       ]_vars
    /\ [][
          (InFrame("setfan") /\ uiStack' # uiStack)
             => /\ uiStack' = Tail(uiStack)
                /\ serOpen => fanCmd'[Top.i] = slider[Top.i]
                /\ \A j \in Fans \ {Top.i} : fanCmd'[j] = fanCmd[j]
       ]_vars

\* in automatic mode the slider of fan 2 was set to 60 and the write has
\* reached the device; fan 3, which has no configuration, keeps the 50
\* initialize_fans wrote
C27_Witness ==
    /\ Idle
    /\ serOpen
    /\ gridInit
    /\ mode = "automatic"
    /\ slider[2] = 60
    /\ fanCmd[2] = 60
    /\ slider[3] = SavedSlider
    /\ fanCmd[3] = SavedSlider

(***************************************************************************)
(* C28: the displayed CPU and GPU temperatures have exactly one live       *)
(* source.  While "Simulate temperatures" is checked the thread's          *)
(* temperature signals are not connected, a temperature of the thread      *)
(* that reaches the window leaves the two LCDs as they are and a move of a *)
(* simulation slider shows on its LCD; while it is unchecked, which it is  *)
(* whenever the window is in manual mode, the thread's temperature signals *)
(* are connected exactly once.                                             *)
(***************************************************************************)
C28_OneLiveSource ==
    /\ [](simChecked => threadConn = 0 /\ simConn >= 1)
    /\ [](~simChecked => threadConn = 1)
    /\ []((Idle /\ mode = "manual") => ~simChecked)
    /\ [][
          /\ (simChecked /\ Idle /\ queue # <<>> /\ Head(queue).type = "tick"
                 /\ queue' = Tail(queue))
                => lcdCPU' = lcdCPU /\ lcdGPU' = lcdGPU
          /\ (simChecked /\ simChecked' /\ simTemp'.cpu # simTemp.cpu)
                => lcdCPU' = simTemp'.cpu
          /\ (simChecked /\ simChecked' /\ simTemp'.gpu # simTemp.gpu)
                => lcdGPU' = simTemp'.gpu
       ]_vars
====
